---- MODULE Spec2Model ----
(***************************************************************************)
(* Baseline data-assimilation methods of dapper/da_methods/baseline.py:    *)
(* EnCheat, Climatology, OptInterp, Var3D and fit_sigmoid.                 *)
(*                                                                         *)
(* State vectors have one component, so every matrix of the source is a    *)
(* 1x1 matrix, trace is the identity and eye(Dyn.M) is 1.  Floating-point  *)
(* numbers are extended rationals <<n, d>> in lowest terms with d >= 0:    *)
(* d > 0 is the rational n/d, <<1,0>> is +inf, <<-1,0>> is -inf and        *)
(* <<0,0>> is nan; the arithmetic follows IEEE/numpy on the special        *)
(* values (x/0 = inf, 0/0 = nan, inf-inf = nan) and is exact on finite     *)
(* ones.  Values of exp/log are kept exactly by storing a logarithm as the *)
(* number it is the logarithm of (see log, exp).                           *)
(***************************************************************************)
EXTENDS Integers, Sequences, FiniteSets, TLC

\* Longest ticker sequence (chrono.ticker) of one run.
MaxTicks == 3
\* Number of times one configured assimilator is invoked.
MaxRuns == 2

--------------------------------------------------------------------------
(* Floating-point values                                                   *)

Abs(i) == IF i < 0 THEN -i ELSE i

Sign(i) == IF i < 0 THEN -1 ELSE IF i = 0 THEN 0 ELSE 1

RECURSIVE Gcd(_, _)
Gcd(i, j) == IF j = 0 THEN i ELSE Gcd(j, i % j)

\* The float n/d (d any integer): lowest terms, sign in the numerator.
Flt(n, d) ==
  IF d = 0 THEN <<Sign(n), 0>>
  ELSE LET g == Gcd(Abs(n), Abs(d))
           s == Sign(d)
       IN  <<(s * n) \div g, (s * d) \div g>>

Num(i) == <<i, 1>>

nan == <<0, 0>>

inf == <<1, 0>>

isfinite(x) == x[2] # 0

isnan(x) == x = nan

\* x * y, cancelling across before multiplying.
fmul(x, y) ==
  IF ~isfinite(x) \/ ~isfinite(y) THEN <<Sign(x[1]) * Sign(y[1]), 0>>
  ELSE LET g1 == Gcd(Abs(x[1]), y[2])
           g2 == Gcd(Abs(y[1]), x[2])
       IN  Flt((x[1] \div g1) * (y[1] \div g2), (x[2] \div g2) * (y[2] \div g1))

\* x / y; a zero divisor gives inf or nan as numpy's float64 does.
fdiv(x, y) == fmul(x, Flt(y[2], y[1]))

fneg(x) == <<-x[1], x[2]>>

fadd(x, y) ==
  IF isnan(x) \/ isnan(y) THEN nan
  ELSE IF ~isfinite(x) /\ ~isfinite(y) THEN (IF x = y THEN x ELSE nan)
  ELSE IF ~isfinite(x) THEN x
  ELSE IF ~isfinite(y) THEN y
  ELSE LET g == Gcd(x[2], y[2])
       IN  Flt(x[1] * (y[2] \div g) + y[1] * (x[2] \div g), (x[2] \div g) * y[2])

fsub(x, y) == fadd(x, fneg(y))

RECURSIVE Pow(_, _)
Pow(g, n) == IF n = 0 THEN 1 ELSE g * Pow(g, n - 1)

\* A logarithm is kept exactly as [ln |-> v], the logarithm of the float v:
\* log(0) = -inf is [ln |-> 0], log(inf) = inf is [ln |-> inf], and the log of
\* a negative number or of nan is nan, [ln |-> nan].
log(v) == [ln |-> IF isnan(v) \/ v[1] < 0 THEN nan ELSE v]

exp(l) == l.ln

\* -l for a logarithm l: the logarithm of 1/v.
lneg(l) == [ln |-> IF isnan(l.ln) THEN nan ELSE Flt(l.ln[2], l.ln[1])]

\* l + m*n for logarithms l, m (m finite) and an integer n >= 0: the
\* logarithm of v * w^n.
laddmul(l, m, n) ==
  [ln |-> IF isnan(l.ln) THEN nan
          ELSE fmul(l.ln, Flt(Pow(m.ln[1], n), Pow(m.ln[2], n)))]

\* 1/L for the correlation length L = 1/ln(g), g a positive integer.
invL(g) == log(Num(g))

--------------------------------------------------------------------------
(* fit_sigmoid                                                             *)

\* sigmoid = lambda k: 1/(1+exp(-k))
sigmoid(k) == fdiv(Num(1), fadd(Num(1), exp(lneg(k))))

\* inv_sig = lambda s: log(s/(1-s))
inv_sig(s) == log(fdiv(s, fsub(Num(1), s)))

\* The fitted curve: the closure (a, b, kb) of S.  The correlation length
\* L = 1/ln(g) is passed as the integer g.
fit_sigmoid(Sb, L, kb) == [a |-> invL(L), b |-> inv_sig(Sb), kb |-> kb]

\* S(k) = sigmoid(b + a*(k-kb))
S(SM, k) == sigmoid(laddmul(SM.b, SM.a, k - SM.kb))

--------------------------------------------------------------------------
(* The run's inputs and state                                              *)

\* method : the DA_Config that was called (EnCheat, Climatology, OptInterp,
\*          Var3D) to make the assimilator;
\* xB     : Var3D's keyword xB;
\* xx     : the truth trajectory, a sequence of states;
\* HMM    : [Dyn, Obs, R, X0mu], the model the assimilator is run on;
\* run    : the assimilator's closure cell B, its locals, its position and
\*          the calls it has made on stats and on the model, in order;
\* twin   : a second assimilator given the same configuration, model,
\*          trajectory, observations and ticker, whose correlation length L
\*          (1/ln 2 for run, 1/ln 3 for twin) and initial covariance X0.C
\*          (read only by fit_sigmoid and by the assessments) differ;
\* nruns  : how many times the assimilator has been invoked.
VARIABLES method, xB, xx, HMM, run, twin, nruns

vars == <<method, xB, xx, HMM, run, twin, nruns>>

None == <<>>

\* The ticker's time step and the time of tick k.
dt == Num(1)

tOf(k) == fmul(Num(k), dt)

\* HMM.Dyn(x, t0, dt): a drifting or a doubling model.
Dyn(x, t0, h) == IF HMM.Dyn = "drift" THEN fadd(x, h) ELSE fmul(Num(2), x)

\* HMM.Obs(x, t): h*x for a time-independent linear operator, t*x for a
\* time-dependent one.
Obs(x, t) == IF HMM.Obs.kind = "linear" THEN fmul(Num(HMM.Obs.h), x) ELSE fmul(t, x)

\* HMM.Obs.linear(x, t): the operator's matrix H.
ObsLinear(x, t) == IF HMM.Obs.kind = "linear" THEN Num(HMM.Obs.h) ELSE t

\* mrdiv(b, A) = b A^-1
mrdiv(b, A) == fdiv(b, A)

RECURSIVE SumSeq(_)
SumSeq(s) == IF s = <<>> THEN Num(0) ELSE fadd(Head(s), SumSeq(Tail(s)))

\* mean(xx,0)
mean(X) == fdiv(SumSeq([i \in 1..Len(X) |-> Num(X[i])]), Num(Len(X)))

\* xx - muC
center(X) == [i \in 1..Len(X) |-> fsub(Num(X[i]), mean(X))]

\* (AC.T @ AC) / (N - 1), which is also CovMat(AC,'A') and np.cov(xx.T)
cov(X) ==
  LET AC == center(X)
  IN  fdiv(SumSeq([i \in 1..Len(X) |-> fmul(AC[i], AC[i])]), Num(Len(X) - 1))

\* stats.assess(k, kObs, tag, mu=mu, Cov=Cov); tag "default" when not given.
Assess(k, kObs, tag, mu, Cov) ==
  [ev |-> "assess", k |-> k, kObs |-> kObs, tag |-> tag, mu |-> mu, Cov |-> Cov]

\* A fresh invocation: nothing assigned, nothing called yet.  c holds what
\* outlives an invocation: the closure cell B (for a matrix given by the
\* caller, the caller's array itself), the inputs L and X0C, and two records
\* kept for the properties: Bgiven, the keyword B as the caller passed it,
\* and Bhist, the value of B after `B *= xB` in each invocation so far.
Fresh(c) ==
  [B |-> c.B, L |-> c.L, X0C |-> c.X0C, Bhist |-> c.Bhist, Bgiven |-> c.Bgiven,
   pc |-> "start", err |-> "none", k |-> 0, nObs |-> 0, assigned |-> {},
   muC |-> nan, PC |-> nan, CC |-> nan, H |-> nan, KG |-> nan, P |-> nan,
   mu |-> nan, SM |-> [a |-> log(nan), b |-> log(nan), kb |-> 0], trHK |-> nan,
   log |-> <<>>]

Methods == {"EnCheat", "Climatology", "OptInterp", "Var3D"}

XX == {X \in [1..2 -> 0..2] : X[1] = 0 /\ X[2] > 0}

YY == {Num(0), Num(3)}

Models ==
  {[Dyn |-> d, Obs |-> o.Obs, R |-> Num(o.R), X0mu |-> Num(1)] :
     d \in {"drift", "double"},
     o \in {[Obs |-> [kind |-> "linear", h |-> 1], R |-> 0],
            [Obs |-> [kind |-> "linear", h |-> 1], R |-> 1],
            [Obs |-> [kind |-> "linear", h |-> 2], R |-> 1],
            [Obs |-> [kind |-> "timedep", h |-> 0], R |-> 1]}}

\* Var3D's keyword B: unset, 'clim' or a matrix.
BB == {[kind |-> "None", val |-> nan], [kind |-> "clim", val |-> nan],
       [kind |-> "array", val |-> Num(1)]}

\* The initial covariance X0.C is 1 for one of run and twin and 8 for the
\* other, so that X0.C/trace(2 cov(xx)) falls inside, on and outside (0,1).
Init ==
  /\ method \in Methods
  /\ xx \in XX
  /\ HMM \in Models
  /\ xB \in (IF method = "Var3D" THEN {Num(1), Num(2)} ELSE {Num(1)})
  /\ nruns = 0
  /\ \E B \in (IF method = "Var3D" THEN BB ELSE {[kind |-> "None", val |-> nan]}),
        C \in (IF method = "Var3D" THEN {1, 8} ELSE {1}) :
       /\ run = Fresh([B |-> B, L |-> 2, X0C |-> Num(C), Bhist |-> <<>>, Bgiven |-> B])
       /\ twin = Fresh([B |-> B, L |-> 3, X0C |-> Num(9 - C), Bhist |-> <<>>, Bgiven |-> B])

--------------------------------------------------------------------------
(* The ticker                                                              *)

\* The tuple (k, kObs, t, dt) the ticker yields after w.k ticks; obs says
\* whether the tick is an observation time.
Tick(w, obs) ==
  [k |-> w.k + 1, kObs |-> IF obs THEN <<w.nObs>> ELSE None,
   t |-> tOf(w.k + 1), dt |-> dt]

\* The loop's bookkeeping once the body has run on tick tk.
Advance(w, tk) ==
  [w EXCEPT !.k = tk.k, !.nObs = IF tk.kObs = None THEN @ ELSE @ + 1]

--------------------------------------------------------------------------
(* EnCheat                                                                 *)

\* def assimilator(stats,HMM,xx,yy): pass
EnCheatRun(w) == [w EXCEPT !.pc = "done"]

--------------------------------------------------------------------------
(* Climatology                                                             *)

ClimatologySetup(w) ==
  LET muC == mean(xx)
      PC  == cov(xx)
  IN  [w EXCEPT !.muC = muC, !.PC = PC, !.assigned = {"muC", "AC", "PC"},
                !.trHK = Num(0),
                !.log = <<Assess(0, None, "default", muC, PC)>>,
                !.pc = "loop"]

\* A Climatology that assessed a forecast: the mean propagated by the model
\* from the climatological mean.
ClimatologyTickPropagated(w, tk) ==
  LET fau == IF tk.kObs = None THEN "u" ELSE "fau"
      mu  == Dyn(w.muC, fsub(tk.t, tk.dt), tk.dt)
  IN  Advance([w EXCEPT !.log = Append(@, Assess(tk.k, tk.kObs, fau, mu, w.PC))], tk)

ClimatologyTick(w, tk) ==
  LET fau == IF tk.kObs = None THEN "u" ELSE "fau"
  IN  Advance([w EXCEPT !.log = Append(@, Assess(tk.k, tk.kObs, fau, w.muC, w.PC))], tk)

--------------------------------------------------------------------------
(* OptInterp                                                               *)

\* A check that only looks for infinities (np.isinf), letting nan through.
SomeInfinite(H) == H = inf \/ H = fneg(inf)

\* not np.all(np.isfinite(H))
NotAllFinite(H) == ~isfinite(H)

OptInterpSetup(w) ==
  LET H == ObsLinear(nan, nan)
  IN  IF NotAllFinite(H)
      THEN [w EXCEPT !.H = H, !.assigned = {"msg", "H"},
                     !.pc = "failed", !.err = "AssimFailedError"]
      ELSE
      LET muC == mean(xx)
          PC  == cov(xx)
          KG  == mrdiv(fmul(PC, H), fadd(fmul(fmul(H, PC), H), HMM.R))
          P   == fmul(fsub(Num(1), fmul(KG, H)), PC)
          SM  == fit_sigmoid(fdiv(P, fmul(Num(2), PC)), w.L, 0)
      IN  [w EXCEPT !.H = H, !.muC = muC, !.PC = PC, !.KG = KG, !.P = P,
                    !.SM = SM, !.mu = muC,
                    !.assigned = {"msg", "H", "muC", "AC", "PC", "KG", "P", "L", "SM", "mu"},
                    !.log = <<[ev |-> "fit_sigmoid", Sb |-> fdiv(P, fmul(Num(2), PC)),
                               kb |-> 0, b |-> SM.b],
                              Assess(0, None, "default", muC, PC)>>,
                    !.pc = "loop"]

\* A gain recomputed at the analysis from the sigmoid-interpolated covariance.
OptInterpGainRecomputed(w, tk) ==
  LET Pk == fmul(fmul(Num(2), w.PC), S(w.SM, tk.k))
  IN  mrdiv(fmul(Pk, w.H), fadd(fmul(fmul(w.H, Pk), w.H), HMM.R))

\* The gain the analysis applies (KG of line 76).
OptInterpGain(w, tk) == w.KG

\* The standard Kalman correction, made around the propagated mean.
OptInterpAnalysisOfForecast(w, muf, KG, y, tk) ==
  fadd(muf, fmul(KG, fsub(y, Obs(muf, tk.t))))

\* mu = muC + KG@(yy[kObs] - Obs(muC,t))
OptInterpAnalysis(w, muf, KG, y, tk) ==
  fadd(w.muC, fmul(KG, fsub(y, Obs(w.muC, tk.t))))

\* The assessment of the forecast on an observation tick.
OptInterpForecastAssess(w, muf, tk) == <<Assess(tk.k, tk.kObs, "f", w.muC, w.PC)>>

OptInterpTick(w, tk, y) ==
  LET muf  == Dyn(w.mu, fsub(tk.t, tk.dt), tk.dt)
      log1 == Append(w.log, [ev |-> "Dyn", k |-> tk.k, from |-> w.mu, to |-> muf])
  IN  IF tk.kObs = None
      THEN Advance([w EXCEPT !.mu = muf,
                      !.log = Append(log1, Assess(tk.k, tk.kObs, "default", muf,
                                 fmul(fmul(Num(2), w.PC), S(w.SM, tk.k))))], tk)
      ELSE
      LET KG  == OptInterpGain(w, tk)
          mua == OptInterpAnalysis(w, muf, KG, y, tk)
          Sb  == fdiv(w.P, w.PC)
          SM  == fit_sigmoid(Sb, w.L, tk.k)
          log2 == log1 \o OptInterpForecastAssess(w, muf, tk)
                  \o <<[ev |-> "analysis", k |-> tk.k, KG |-> KG, y |-> y,
                        muf |-> muf, mu |-> mua, Pa |-> w.P],
                       [ev |-> "fit_sigmoid", Sb |-> Sb, kb |-> tk.k, b |-> SM.b],
                       Assess(tk.k, tk.kObs, "default", mua,
                              fmul(fmul(Num(2), w.PC), S(SM, tk.k)))>>
      IN  Advance([w EXCEPT !.mu = mua, !.SM = SM, !.log = log2], tk)

--------------------------------------------------------------------------
(* Var3D                                                                   *)

\* B in (None,'clim'); a 1x1 array equals neither.
BInNoneClim(B) == B.kind \in {"None", "clim"}

\* B after `if B in (None,'clim'): B = np.cov(xx.T)` and `B *= xB`.
ResolveB(B) ==
  LET B1 == IF BInNoneClim(B) THEN cov(xx) ELSE B.val
  IN  [kind |-> "array", val |-> fmul(B1, xB)]

Var3DSetup(w) ==
  LET B  == ResolveB(w.B)
      CC == fmul(Num(2), cov(xx))
      P  == w.X0C
      Sb == fdiv(P, CC)
      SM == fit_sigmoid(Sb, w.L, 0)
      mu == HMM.X0mu
  IN  [w EXCEPT !.B = B, !.Bhist = Append(@, B.val), !.CC = CC, !.P = P,
                !.SM = SM, !.mu = mu,
                !.assigned = {"B", "CC", "L", "P", "SM", "mu"},
                !.log = <<[ev |-> "fit_sigmoid", Sb |-> Sb, kb |-> 0, b |-> SM.b],
                          Assess(0, None, "default", mu, P)>>,
                !.pc = "loop"]

\* A gain computed from the sigmoid-interpolated forecast covariance.
Var3DGainOfForecast(w, Pf, H) ==
  mrdiv(fmul(Pf, H), fadd(fmul(fmul(H, Pf), H), HMM.R))

\* KG = mrdiv(B@H.T, H@B@H.T + Obs.noise.C.full)
Var3DGain(w, Pf, H) ==
  mrdiv(fmul(w.B.val, H), fadd(fmul(fmul(H, w.B.val), H), HMM.R))

\* A correction whose innovation is taken around the initial mean X0.mu.
Var3DAnalysisAroundX0(muf, KG, y, tk) ==
  fadd(muf, fmul(KG, fsub(y, Obs(HMM.X0mu, tk.t))))

\* mu = mu + KG@(yy[kObs] - Obs(mu,t))
Var3DAnalysis(muf, KG, y, tk) == fadd(muf, fmul(KG, fsub(y, Obs(muf, tk.t))))

\* A loop body that leaves the forecast unassessed.
Var3DForecastUnassessed(muf, Pf, tk) == <<>>

\* The assessment of the forecast on an observation tick.
Var3DForecastAssess(muf, Pf, tk) == <<Assess(tk.k, tk.kObs, "f", muf, Pf)>>

Var3DTick(w, tk, y) ==
  LET muf  == Dyn(w.mu, fsub(tk.t, tk.dt), tk.dt)
      Pf   == fmul(w.CC, S(w.SM, tk.k))
      log1 == Append(w.log, [ev |-> "Dyn", k |-> tk.k, from |-> w.mu, to |-> muf])
  IN  IF tk.kObs = None
      THEN Advance([w EXCEPT !.mu = muf, !.P = Pf,
                      !.log = Append(log1, Assess(tk.k, tk.kObs, "default", muf, Pf))], tk)
      ELSE
      LET H   == ObsLinear(muf, tk.t)
          KG  == Var3DGain(w, Pf, H)
          mua == Var3DAnalysis(muf, KG, y, tk)
          Pa  == fmul(fsub(Num(1), fmul(KG, H)), w.B.val)
          Sb  == fdiv(Pa, w.CC)
          SM  == fit_sigmoid(Sb, w.L, tk.k)
          log2 == log1 \o Var3DForecastAssess(muf, Pf, tk)
                  \o <<[ev |-> "analysis", k |-> tk.k, KG |-> KG, y |-> y,
                        muf |-> muf, mu |-> mua, Pa |-> Pa],
                       [ev |-> "fit_sigmoid", Sb |-> Sb, kb |-> tk.k, b |-> SM.b],
                       Assess(tk.k, tk.kObs, "default", mua, Pa)>>
      IN  Advance([w EXCEPT !.mu = mua, !.H = H, !.KG = KG, !.P = Pa, !.SM = SM,
                            !.assigned = @ \cup {"H", "KG"}, !.log = log2], tk)

--------------------------------------------------------------------------
(* Actions: one per part of an assimilator, taken by run and twin alike    *)

Setup(w) ==
  CASE method = "EnCheat"     -> EnCheatRun(w)
    [] method = "Climatology" -> ClimatologySetup(w)
    [] method = "OptInterp"   -> OptInterpSetup(w)
    [] method = "Var3D"       -> Var3DSetup(w)

Frame == UNCHANGED <<method, xB, xx, HMM>>

\* The assimilator is called: nonlocal B is the closure's cell, everything
\* else is a fresh local.
Call(m) ==
  /\ method = m
  /\ run.pc = "start"
  /\ nruns < MaxRuns
  /\ nruns' = nruns + 1
  /\ run' = Setup(run)
  /\ twin' = Setup(twin)
  /\ Frame

EnCheatCall == Call("EnCheat")

ClimatologyCall == Call("Climatology")

OptInterpCall == Call("OptInterp")

Var3DCall == Call("Var3D")

\* One pass of `for k,kObs,_,_ in progbar(chrono.ticker)` in Climatology.
ClimatologyStep ==
  /\ method = "Climatology" /\ run.pc = "loop" /\ run.k < MaxTicks
  /\ \E obs \in BOOLEAN :
       /\ run' = ClimatologyTick(run, Tick(run, obs))
       /\ twin' = ClimatologyTick(twin, Tick(twin, obs))
  /\ UNCHANGED nruns /\ Frame

\* One pass of `for k,kObs,t,dt in progbar(chrono.ticker)` in OptInterp;
\* y is yy[kObs].
OptInterpStep ==
  /\ method = "OptInterp" /\ run.pc = "loop" /\ run.k < MaxTicks
  /\ \E obs \in BOOLEAN, y \in YY :
       /\ ~obs => y = Num(0)
       /\ run' = OptInterpTick(run, Tick(run, obs), y)
       /\ twin' = OptInterpTick(twin, Tick(twin, obs), y)
  /\ UNCHANGED nruns /\ Frame

\* One pass of `for k,kObs,t,dt in progbar(chrono.ticker)` in Var3D.
Var3DStep ==
  /\ method = "Var3D" /\ run.pc = "loop" /\ run.k < MaxTicks
  /\ \E obs \in BOOLEAN, y \in YY :
       /\ ~obs => y = Num(0)
       /\ run' = Var3DTick(run, Tick(run, obs), y)
       /\ twin' = Var3DTick(twin, Tick(twin, obs), y)
  /\ UNCHANGED nruns /\ Frame

\* The ticker is exhausted: the loop ends and the assimilator returns.
Return ==
  /\ run.pc = "loop"
  /\ run' = [run EXCEPT !.pc = "done"]
  /\ twin' = [twin EXCEPT !.pc = "done"]
  /\ UNCHANGED nruns /\ Frame

\* The caller sets up another invocation of the same assimilator: B stays
\* what the last invocation left in the closure.
Again ==
  /\ run.pc \in {"done", "failed"}
  /\ nruns < MaxRuns
  /\ run' = Fresh(run)
  /\ twin' = Fresh(twin)
  /\ UNCHANGED nruns /\ Frame

Next ==
  \/ EnCheatCall \/ ClimatologyCall \/ OptInterpCall \/ Var3DCall
  \/ ClimatologyStep \/ OptInterpStep \/ Var3DStep
  \/ Return \/ Again

Spec == Init /\ [][Next]_vars

--------------------------------------------------------------------------
(* Properties                                                              *)

Worlds == {run, twin}

Started(w) == w.pc \in {"loop", "done"}

Events(w, ev) == SelectSeq(w.log, LAMBDA e : e.ev = ev)

\* The climatology and the setup gain, computed from the inputs alone.
ClimMean == mean(xx)

ClimCov == cov(xx)

SetupGain ==
  LET H == ObsLinear(nan, nan)
  IN  fdiv(fmul(ClimCov, H), fadd(fmul(fmul(H, ClimCov), H), HMM.R))

\* C1: every assessment a Climatology run emits, the initial one at index 0
\* and exactly one per tick (tagged 'fau' on observation ticks, 'u'
\* otherwise), carries the climatological mean and covariance of xx.
C1_ClimatologyAssessments ==
  method = "Climatology" =>
    LET muC == ClimMean
        PC  == ClimCov
    IN  \A w \in Worlds :
          Started(w) =>
            /\ Len(w.log) = 1 + w.k
            /\ w.log[1] = Assess(0, None, "default", muC, PC)
            /\ \A i \in 2..Len(w.log) :
                 /\ w.log[i].ev = "assess" /\ w.log[i].k = i - 1
                 /\ w.log[i].tag = (IF w.log[i].kObs = None THEN "u" ELSE "fau")
                 /\ w.log[i].mu = muC /\ w.log[i].Cov = PC

\* A finished Climatology run that saw an observation tick and a plain tick.
C1_Witness ==
  /\ method = "Climatology" /\ run.pc = "done" /\ HMM.Dyn = "double"
  /\ \E i, j \in 2..Len(run.log) : run.log[i].tag = "fau" /\ run.log[j].tag = "u"

\* C2: OptInterp computes the gain once, from the climatological covariance,
\* H and R; every analysis of the run applies that gain, and KG, H and PC
\* keep their setup values through the loop.
C2_OptInterpGainFixed ==
  method = "OptInterp" =>
    LET KG == SetupGain
    IN  \A w \in Worlds :
          Started(w) =>
            /\ w.KG = KG /\ w.H = ObsLinear(nan, nan) /\ w.PC = ClimCov
            /\ \A i \in 1..Len(w.log) :
                 w.log[i].ev = "analysis" => w.log[i].KG = KG

\* An OptInterp run with two analyses, after a refit at an interior value.
C2_Witness ==
  /\ method = "OptInterp" /\ run.pc = "done"
  /\ Len(Events(run, "analysis")) >= 2
  /\ run.P # Num(0)

\* C5: OptInterp raises AssimFailedError at setup exactly when H evaluated at
\* (nan, nan) has a non-finite entry, before the climatology is computed,
\* before any assessment or model call and before any tick.
C5_OptInterpFailsFast ==
  method = "OptInterp" =>
    \A w \in Worlds :
      w.pc # "start" =>
        IF isfinite(ObsLinear(nan, nan))
        THEN w.pc # "failed" /\ w.err = "none"
        ELSE /\ w.pc = "failed" /\ w.err = "AssimFailedError"
             /\ w.log = <<>> /\ w.k = 0
             /\ w.assigned \cap {"muC", "AC", "PC", "KG", "mu"} = {}

\* An OptInterp run on a time-dependent operator, aborted at setup.
C5_Witness ==
  method = "OptInterp" /\ run.pc = "failed" /\ HMM.Obs.kind = "timedep"

Sigmoidal == method \in {"OptInterp", "Var3D"}

\* The means and gains of a run, in the order they were produced.
Means(w) == LET A == Events(w, "assess") IN [i \in 1..Len(A) |-> A[i].mu]

Gains(w) == LET A == Events(w, "analysis") IN [i \in 1..Len(A) |-> A[i].KG]

Covs(w) == LET A == Events(w, "assess") IN [i \in 1..Len(A) |-> A[i].Cov]

\* C3: two runs of OptInterp or Var3D that differ only in what the sigmoid is
\* fitted from (L, and the initial covariance behind the first anchor) apply
\* the same gains and produce the same means at every step.
C3_SigmoidDiagnosticOnly ==
  Sigmoidal =>
    /\ run.pc = twin.pc /\ run.k = twin.k
    /\ run.mu = twin.mu /\ run.B = twin.B
    /\ Means(run) = Means(twin)
    /\ Gains(run) = Gains(twin)

\* Two Var3D runs past an analysis and a later tick, whose fitted curves and
\* emitted covariances differ and are finite.
C3_Witness ==
  /\ method = "Var3D" /\ run.pc = "done"
  /\ Len(Gains(run)) >= 1
  /\ run.SM # twin.SM
  /\ \E i \in 1..Len(Covs(run)) :
       /\ Covs(run)[i] # Covs(twin)[i]
       /\ isfinite(Covs(run)[i]) /\ isfinite(Covs(twin)[i])
       /\ Events(run, "assess")[i].k > 1

\* C4: Var3D with B unset or 'clim', xB = 1, the identity observation
\* operator and zero observation noise: every analysis leaves the mean equal
\* to the observation.
C4_Var3DPerfectObservation ==
  ( /\ method = "Var3D" /\ run.Bgiven.kind \in {"None", "clim"} /\ xB = Num(1)
    /\ HMM.Obs = [kind |-> "linear", h |-> 1] /\ HMM.R = Num(0) )
  => \A w \in Worlds :
       \A i \in 1..Len(w.log) :
         w.log[i].ev = "analysis" => w.log[i].mu = w.log[i].y

\* Such a run, after an analysis whose forecast mean was not the observation.
C4_Witness ==
  /\ method = "Var3D" /\ run.Bgiven.kind = "None" /\ xB = Num(1)
  /\ HMM.Obs = [kind |-> "linear", h |-> 1] /\ HMM.R = Num(0)
  /\ \E i \in 1..Len(run.log) :
       /\ run.log[i].ev = "analysis"
       /\ run.log[i].muf # run.log[i].y /\ run.log[i].k > 1

\* The mean a run holds after the events log[1..i]: the mean of the last
\* assessment.
RECURSIVE LastMean(_, _)
LastMean(lg, i) == IF lg[i].ev = "assess" THEN lg[i].mu ELSE LastMean(lg, i - 1)

\* C7: in OptInterp the analysis mean is muC + KG (y - Obs(muC, t)) whatever
\* the model propagated, the forecast assessment of an observation tick
\* reports muC and PC, and every forecast starts from the previous step's mean.
C7_OptInterpIgnoresForecast ==
  method = "OptInterp" =>
    LET muC == ClimMean
        PC  == ClimCov
        KG  == SetupGain
    IN
    \A w \in Worlds :
      \A i \in 1..Len(w.log) :
        LET e == w.log[i]
        IN  /\ e.ev = "analysis" =>
                 e.mu = fadd(muC, fmul(KG, fsub(e.y, Obs(muC, tOf(e.k)))))
            /\ (e.ev = "assess" /\ e.tag = "f") =>
                 e.mu = muC /\ e.Cov = PC
            /\ e.ev = "Dyn" =>
                 /\ e.from = LastMean(w.log, i - 1)
                 /\ e.to = Dyn(e.from, tOf(e.k - 1), dt)
            /\ (e.ev = "assess" /\ e.kObs = None /\ e.k > 0) =>
                 e.mu = w.log[i - 1].to

\* An OptInterp analysis whose forecast mean differs from muC and whose
\* result differs from the standard correction, followed by a plain tick.
C7_Witness ==
  /\ method = "OptInterp" /\ run.pc = "done"
  /\ \E i \in 1..Len(run.log) :
       /\ run.log[i].ev = "analysis"
       /\ run.log[i].muf # ClimMean
       /\ run.log[i].mu # OptInterpAnalysisOfForecast(run, run.log[i].muf,
                              run.log[i].KG, run.log[i].y, [t |-> tOf(run.log[i].k)])
       /\ \E j \in (i + 1)..Len(run.log) :
            run.log[j].ev = "assess" /\ run.log[j].kObs = None

\* The events lg[i..] are those of ticks k, k+1, ... in the loop's order:
\* the forecast, then on a plain tick one assessment, and on an observation
\* tick the 'f' assessment, the analysis, the refit and the final assessment.
RECURSIVE TicksInOrder(_, _, _)
TicksInOrder(lg, i, k) ==
  IF i > Len(lg) THEN TRUE
  ELSE /\ lg[i].ev = "Dyn" /\ lg[i].k = k
       /\ i + 1 <= Len(lg)
       /\ lg[i + 1].ev = "assess" /\ lg[i + 1].k = k
       /\ IF lg[i + 1].kObs = None
          THEN lg[i + 1].tag = "default" /\ TicksInOrder(lg, i + 2, k + 1)
          ELSE /\ lg[i + 1].tag = "f"
               /\ i + 4 <= Len(lg)
               /\ lg[i + 2].ev = "analysis" /\ lg[i + 2].k = k
               /\ lg[i + 3].ev = "fit_sigmoid" /\ lg[i + 3].kb = k
               /\ lg[i + 4].ev = "assess" /\ lg[i + 4].k = k
               /\ lg[i + 4].tag = "default" /\ lg[i + 4].kObs = lg[i + 1].kObs
               /\ TicksInOrder(lg, i + 5, k + 1)

\* C8: a run of OptInterp or Var3D emits the assessment of index 0 before
\* any tick, then handles the ticks in order, each with one forecast first;
\* an observation tick has the 'f' assessment, one analysis, one refit and
\* the final assessment in that order, a plain tick one assessment only; the
\* run emits 1 + ticks + observation ticks assessments in all.
C8_TickOrdering ==
  Sigmoidal =>
    \A w \in Worlds :
      Started(w) =>
        /\ w.log[1].ev = "fit_sigmoid" /\ w.log[1].kb = 0
        /\ w.log[2].ev = "assess" /\ w.log[2].k = 0
        /\ TicksInOrder(w.log, 3, 1)
        /\ Len(Events(w, "Dyn")) = w.k
        /\ Len(Events(w, "analysis")) = w.nObs
        /\ Len(Events(w, "fit_sigmoid")) = 1 + w.nObs
        /\ Len(Events(w, "assess")) = 1 + w.k + w.nObs

\* A finished Var3D run of an observation tick, a plain tick and more.
C8_Witness ==
  /\ method = "Var3D" /\ run.pc = "done" /\ run.k = MaxTicks
  /\ run.nObs >= 1 /\ run.nObs < run.k
  /\ Len(Events(run, "assess")) = 1 + run.k + run.nObs

\* C6: whenever fit_sigmoid is called, an anchor value outside (0,1) is
\* clamped or rejected: the fitted curve has a finite logit b and every
\* covariance emitted is finite.
C6_SigmoidAnchorProtected ==
  Sigmoidal =>
    \A i \in 1..Len(run.log) :
      /\ run.log[i].ev = "fit_sigmoid" =>
           isfinite(run.log[i].b.ln) /\ run.log[i].b.ln # Num(0)
      /\ run.log[i].ev = "assess" => isfinite(run.log[i].Cov)

\* C9: after the analysis at step k the sigmoid is refitted at kb = k with
\* Sb = trace(P_a)/trace(2 cov(xx)), so that the covariance assessed at the
\* anchor step has the trace of P_a.
C9_RefitAnchor ==
  Sigmoidal =>
    \A i \in 1..Len(run.log) :
      (run.log[i].ev = "fit_sigmoid" /\ run.log[i].kb > 0) =>
        /\ run.log[i - 1].ev = "analysis" /\ run.log[i - 1].k = run.log[i].kb
        /\ run.log[i].Sb = fdiv(run.log[i - 1].Pa, fmul(Num(2), ClimCov))
        /\ run.log[i + 1].ev = "assess" /\ run.log[i + 1].Cov = run.log[i - 1].Pa

\* The background covariance the configuration stands for: xB times the
\* matrix given, or xB times the climatological covariance.
EffectiveB ==
  fmul(xB, IF run.Bgiven.kind = "array" THEN run.Bgiven.val ELSE ClimCov)

\* C10: every invocation of a configured Var3D resolves B to xB*B0, the loop
\* leaves B alone, and a matrix given by the caller is not modified.
C10_BackgroundResolvedOnce ==
  method = "Var3D" =>
    /\ \A i \in 1..Len(run.Bhist) : run.Bhist[i] = EffectiveB
    /\ Started(run) => run.B.val = EffectiveB
    /\ run.Bgiven.kind = "array" => run.B = run.Bgiven

====
